---- MODULE Spec2Model ----
(***************************************************************************)
(* Model of src/app.py: the page-count extractor (get_page_count), the     *)
(* greedy partitioner (split_charts_optimally) and the report writer       *)
(* (write_assignment_report).                                              *)
(*                                                                         *)
(* Encoding of the Python values:                                          *)
(*  - a document is a record [id, ocr, markdown, text]:                    *)
(*      ocr      = "missing" (no 'ocr' key), "null" ('ocr': None) or       *)
(*                 "dict" ('ocr' is a dict);                               *)
(*      markdown = "missing", "null" or "str" (read only when ocr="dict"); *)
(*      text     = the markdown string, as a sequence of tokens; a token   *)
(*                 is a page marker the pattern matches or other text;     *)
(*      id       = the document's '_id' (unique within a run).             *)
(*  - a team member is a record [isdict, name]; name = "" stands for a     *)
(*    missing, None or empty 'name' (all falsy for m.get('name')).         *)
(*  - a Python dict (workloads) is the sequence of its entries in          *)
(*    insertion order, which is the order dict.keys()/values() iterate.    *)
(*  - get_page_count yields [raised, value]: raised = TRUE stands for the  *)
(*    AttributeError of None.get(...).                                     *)
(***************************************************************************)
EXTENDS Integers, Sequences, FiniteSets

VARIABLES
    charts,         \* split_charts_optimally's argument charts
    team_members,   \* split_charts_optimally's argument team_members
    pc,             \* "call", "loop", "returned", "raised", "reported"
    charts_sorted,  \* the local charts_sorted (line 28)
    i,              \* position of the for loop of line 32 in charts_sorted
    workloads,      \* the dict workloads (line 29) / the returned mapping
    output_file,    \* the reports appended to output_file
    console         \* the lines print()ed

vars == <<charts, team_members, pc, charts_sorted, i, workloads, output_file, console>>

\* ------------------------------------------------------------------ bounds
MaxCharts == 2
MaxPages == 2
MaxMembers == 2
LptCharts == 5
LptPages == 3
LptWorkers == 3

\* ------------------------------------------------------------------ values
WorkerNames == <<"ann", "bob", "cy", "dee", "eve">>

\* Tokens of a markdown text.  The pattern of main (line 79),
\*   <!--\s*page\s+(\d+)\s*-->  with re.IGNORECASE,
\* matches the first two and neither of the others.
LowerMarker == "<!-- page 1 -->"
UpperMarker == "<!-- PAGE 2 -->"
PlainText == "lorem"
NoNumberMarker == "<!-- page -->"

pattern == {LowerMarker, UpperMarker}

\* pattern.findall(markdown): the non-overlapping matches, left to right.
RECURSIVE findall(_, _)
findall(pat, text) ==
    IF text = <<>> THEN <<>>
    ELSE IF Head(text) \in pat THEN <<Head(text)>> \o findall(pat, Tail(text))
    ELSE findall(pat, Tail(text))

\* get_page_count (lines 5-8)
get_page_count(doc, pat) ==
    IF doc.ocr = "null"
    THEN [raised |-> TRUE, value |-> 0]          \* None.get -> AttributeError
    ELSE IF doc.ocr = "missing"
    THEN [raised |-> FALSE, value |-> 0]         \* {}.get('markdown') is None
    ELSE IF doc.markdown # "str" \/ doc.text = <<>>
    THEN [raised |-> FALSE, value |-> 0]         \* markdown falsy
    ELSE [raised |-> FALSE, value |-> Len(findall(pat, doc.text))]

\* ------------------------------------------------------------------ helpers
RECURSIVE SumSeq(_)
SumSeq(s) == IF s = <<>> THEN 0 ELSE Head(s) + SumSeq(Tail(s))

SeqsUpTo(S, n) == UNION {[1..k -> S] : k \in 0..n}

\* ------------------------------------------------- split_charts_optimally
\* line 23: the list comprehension over team_members
NamesUnfiltered(team) == [k \in 1..Len(team) |-> team[k].name]

member_names_of(team) ==
    LET usable(m) == m.isdict /\ m.name # ""
        kept == SelectSeq(team, usable)
    IN  [k \in 1..Len(kept) |-> kept[k].name]

\* sorted(charts, key=..., reverse=True), line 28: descending by key, and
\* elements with equal keys keep their order (list.sort is stable also
\* under reverse=True).  Built by inserting each element, in input order,
\* behind every element already placed whose key is >= its own.
PagesKey(doc) == get_page_count(doc, pattern).value

RECURSIVE InsertDesc(_, _)
InsertDesc(x, s) ==
    IF s = <<>> THEN <<x>>
    ELSE IF PagesKey(Head(s)) >= PagesKey(x) THEN <<Head(s)>> \o InsertDesc(x, Tail(s))
    ELSE <<x>> \o s

RECURSIVE InsertDescUnstable(_, _)
InsertDescUnstable(x, s) ==
    IF s = <<>> THEN <<x>>
    ELSE IF PagesKey(Head(s)) > PagesKey(x)
    THEN <<Head(s)>> \o InsertDescUnstable(x, Tail(s))
    ELSE <<x>> \o s

\* the sort with ties reversed, as sorted(charts, key=...)[::-1] would give
RECURSIVE sorted_ties_reversed(_)
sorted_ties_reversed(cs) ==
    IF cs = <<>> THEN <<>>
    ELSE InsertDescUnstable(cs[Len(cs)], sorted_ties_reversed(SubSeq(cs, 1, Len(cs) - 1)))

\* no sort at all: the charts are taken in input order
sorted_not_at_all(cs) == cs

RECURSIVE sorted_by_pages(_)
sorted_by_pages(cs) ==
    IF cs = <<>> THEN <<>>
    ELSE InsertDesc(cs[Len(cs)], sorted_by_pages(SubSeq(cs, 1, Len(cs) - 1)))

\* line 29: {name: {'charts': [], 'total_pages': 0} for name in member_names};
\* a name that occurs again overwrites its (equal) entry and keeps its place.
RECURSIVE DictKeys(_, _)
DictKeys(names, seen) ==
    IF names = <<>> THEN <<>>
    ELSE IF Head(names) \in seen THEN DictKeys(Tail(names), seen)
    ELSE <<Head(names)>> \o DictKeys(Tail(names), seen \cup {Head(names)})

\* a bucket for the first name only (the others to be made on first use)
new_workloads_first_only(names) ==
    <<[name |-> names[1], charts |-> <<>>, total_pages |-> 0]>>

new_workloads(names) ==
    LET keys == DictKeys(names, {})
    IN  [k \in 1..Len(keys) |-> [name |-> keys[k], charts |-> <<>>, total_pages |-> 0]]

\* line 34: min(workloads.keys(), key=lambda x: workloads[x]['total_pages']);
\* min scans the keys in iteration order and keeps the first minimal one
\* (a later key replaces the best so far only when strictly smaller).
RECURSIVE MinScanLast(_, _, _)
MinScanLast(wl, k, best) ==
    IF k > Len(wl) THEN best
    ELSE MinScanLast(wl, k + 1,
                     IF wl[k].total_pages <= wl[best].total_pages THEN k ELSE best)

RECURSIVE MinScan(_, _, _)
MinScan(wl, k, best) ==
    IF k > Len(wl) THEN best
    ELSE MinScan(wl, k + 1,
                 IF wl[k].total_pages < wl[best].total_pages THEN k ELSE best)

\* the scan keeping the last of the minimal keys (<= for <)
min_member_last(wl) == MinScanLast(wl, 2, 1)

\* no scan: always the first key
min_member_first_key(wl) == 1

min_member(wl) == MinScan(wl, 2, 1)

\* lines 35-38: append the chart's entry to the member's list, add its pages
assign_replacing(wl, k, chart, pages) ==
    [wl EXCEPT ![k].charts = <<[id |-> chart.id, pages |-> pages]>>,
               ![k].total_pages = @ + pages]

assign_counting(wl, k, chart, pages) ==
    [wl EXCEPT ![k].charts = Append(@, [id |-> chart.id, pages |-> pages]),
               ![k].total_pages = @ + 1]

assign(wl, k, chart, pages) ==
    [wl EXCEPT ![k].charts = Append(@, [id |-> chart.id, pages |-> pages]),
               ![k].total_pages = @ + pages]

\* ------------------------------------------------ write_assignment_report
\* min(loads), max(loads) of line 48 (loads non-empty)
RECURSIVE MinOf(_)
MinOf(s) ==
    IF Len(s) = 1 THEN s[1]
    ELSE LET m == MinOf(Tail(s)) IN IF s[1] <= m THEN s[1] ELSE m

RECURSIVE MaxOf(_)
MaxOf(s) ==
    IF Len(s) = 1 THEN s[1]
    ELSE LET m == MaxOf(Tail(s)) IN IF s[1] >= m THEN s[1] ELSE m

\* a / b formatted with a fixed number of decimals, as the integer number
\* of units `scale` per 1 (scale = 100 for :.2f, 10 for :.1f): the nearest
\* one, and the even one of two equally near.
Rounded(a, b, scale) ==
    LET q == (a * scale) \div b
        r == (a * scale) % b
    IN  IF 2 * r > b \/ (2 * r = b /\ q % 2 = 1) THEN q + 1 ELSE q

\* lines 45-63: the text appended to output_file, as a record of its fields.
\* efficiency is (1-(max-min)/max)*100 = 100*min/max, in tenths of a percent.
report(assignments) ==
    LET loads == [k \in 1..Len(assignments) |-> assignments[k].total_pages]
        counts == [k \in 1..Len(assignments) |-> Len(assignments[k].charts)]
        total_charts == SumSeq(counts)
        total_pages == SumSeq(loads)
        min_load == MinOf(loads)
        max_load == MaxOf(loads)
    IN  [ total_charts |-> total_charts,
          total_pages  |-> total_pages,
          members      |-> Len(assignments),
          average      |-> Rounded(total_pages, Len(assignments), 100),
          blocks       |-> [k \in 1..Len(assignments) |->
                              [ member |-> assignments[k].name,
                                ncharts |-> Len(assignments[k].charts),
                                total_pages |-> assignments[k].total_pages,
                                lines |-> [n \in 1..Len(assignments[k].charts) |->
                                             [n |-> n, pages |-> assignments[k].charts[n].pages]] ]],
          min_load     |-> min_load,
          max_load     |-> max_load,
          variance     |-> max_load - min_load,
          efficiency   |-> IF max_load > 0 THEN Rounded(100 * min_load, max_load, 10)
                           ELSE 1000 ]

\* ------------------------------------------------------------------ inputs
\* a markdown text with n page markers, lower and upper case in turn, each
\* followed by other text
TextOf(n) ==
    [k \in 1..(2 * n) |->
        IF k % 2 = 0 THEN PlainText
        ELSE IF k % 4 = 1 THEN LowerMarker ELSE UpperMarker]

\* the shapes of a document: n page markers (n = 0: an empty markdown), a
\* text that holds no match, and the ones without a markdown string
DocShapes(maxPages) ==
    {[ocr |-> "dict", markdown |-> "str", text |-> TextOf(n)] : n \in 0..maxPages}
    \cup {[ocr |-> "dict", markdown |-> "str", text |-> <<PlainText, NoNumberMarker>>],
          [ocr |-> "missing", markdown |-> "missing", text |-> <<>>],
          [ocr |-> "null", markdown |-> "missing", text |-> <<>>],
          [ocr |-> "dict", markdown |-> "null", text |-> <<>>]}

WithIds(shapes) ==
    [k \in 1..Len(shapes) |->
        [id |-> k, ocr |-> shapes[k].ocr, markdown |-> shapes[k].markdown,
         text |-> shapes[k].text]]

Names(n) == {WorkerNames[k] : k \in 1..n}

Members(n) ==
    {[isdict |-> TRUE, name |-> nm] : nm \in Names(n) \cup {""}}
    \cup {[isdict |-> FALSE, name |-> WorkerNames[1]]}

Init ==
    /\ charts \in {WithIds(s) : s \in SeqsUpTo(DocShapes(MaxPages), MaxCharts)}
    /\ team_members \in SeqsUpTo(Members(MaxMembers), MaxMembers)
    /\ pc = "call"
    /\ charts_sorted = <<>>
    /\ i = 1
    /\ workloads = <<>>
    /\ output_file = <<>>
    /\ console = <<>>

\* ------------------------------------------------------------------ actions
\* lines 23-25: no usable member name, the empty mapping is returned
ReturnEmpty ==
    /\ pc = "call"
    /\ member_names_of(team_members) = <<>>
    /\ pc' = "returned"
    /\ workloads' = <<>>
    /\ UNCHANGED <<charts, team_members, charts_sorted, i, output_file, console>>

\* line 28: the sort evaluates get_page_count on every chart; an exception
\* of it leaves split_charts_optimally (nothing catches it there)
SortRaises ==
    /\ pc = "call"
    /\ member_names_of(team_members) # <<>>
    /\ \E k \in 1..Len(charts) : get_page_count(charts[k], pattern).raised
    /\ pc' = "raised"
    /\ UNCHANGED <<charts, team_members, charts_sorted, i, workloads, output_file, console>>

\* lines 23-29: names taken, charts sorted, one empty bucket per name
Begin ==
    /\ pc = "call"
    /\ member_names_of(team_members) # <<>>
    /\ \A k \in 1..Len(charts) : ~get_page_count(charts[k], pattern).raised
    /\ charts_sorted' = sorted_by_pages(charts)
    /\ workloads' = new_workloads(member_names_of(team_members))
    /\ i' = 1
    /\ pc' = "loop"
    /\ UNCHANGED <<charts, team_members, output_file, console>>

\* lines 32-38: one iteration of the for loop
Assign ==
    /\ pc = "loop"
    /\ i <= Len(charts_sorted)
    /\ LET chart == charts_sorted[i]
           pages == get_page_count(chart, pattern).value
           min_m == min_member(workloads)
       IN  workloads' = assign(workloads, min_m, chart, pages)
    /\ i' = i + 1
    /\ UNCHANGED <<charts, team_members, pc, charts_sorted, output_file, console>>

\* line 40: the loop is over, workloads is returned
Return ==
    /\ pc = "loop"
    /\ i > Len(charts_sorted)
    /\ pc' = "returned"
    /\ UNCHANGED <<charts, team_members, charts_sorted, i, workloads, output_file, console>>

\* lines 44-63 on a non-empty mapping: the report is appended to the file
WriteReport ==
    /\ pc = "returned"
    /\ Len(workloads) > 0
    /\ output_file' = Append(output_file, report(workloads))
    /\ pc' = "reported"
    /\ UNCHANGED <<charts, team_members, charts_sorted, i, workloads, console>>

\* lines 44-48 and 64-65 on the empty mapping: min(loads) of the empty list
\* raises ValueError before the file is opened; the except clause prints it
ReportFails ==
    /\ pc = "returned"
    /\ Len(workloads) = 0
    /\ console' = Append(console, "Error writing report: min() arg is an empty sequence")
    /\ pc' = "reported"
    /\ UNCHANGED <<charts, team_members, charts_sorted, i, workloads, output_file>>

Next ==
    \/ ReturnEmpty
    \/ SortRaises
    \/ Begin
    \/ Assign
    \/ Return
    \/ WriteReport
    \/ ReportFails

Spec == Init /\ [][Next]_vars

\* The partitioner on well-formed inputs, as main hands them over (line 86
\* keeps the documents with a page count > 0): every document has a
\* markdown with at least one page marker and the roster is a list of
\* dicts with distinct names.
InitLPT ==
    /\ charts \in {WithIds(s) :
          s \in SeqsUpTo({[ocr |-> "dict", markdown |-> "str", text |-> TextOf(n)] :
                             n \in 1..LptPages}, LptCharts)}
    /\ team_members \in {[k \in 1..n |-> [isdict |-> TRUE, name |-> WorkerNames[k]]] :
                            n \in 1..LptWorkers}
    /\ pc = "call"
    /\ charts_sorted = <<>>
    /\ i = 1
    /\ workloads = <<>>
    /\ output_file = <<>>
    /\ console = <<>>

NextLPT ==
    \/ Begin
    \/ Assign
    \/ Return
    \/ WriteReport

SpecLPT == InitLPT /\ [][NextLPT]_vars

\* ------------------------------------------------------------- properties
\* What the properties are stated in, read off the inputs and the result
\* and not off the operators above.

\* the number of page markers of a document's markdown (0 without one)
Weight(doc) ==
    IF doc.ocr = "dict" /\ doc.markdown = "str"
    THEN Cardinality({k \in DOMAIN doc.text : doc.text[k] \in {LowerMarker, UpperMarker}})
    ELSE 0

\* the names split_charts_optimally can take from the roster
UsableNames ==
    {team_members[k].name :
        k \in {j \in DOMAIN team_members : team_members[j].isdict /\ team_members[j].name # ""}}

\* the first roster position that gives the name
FirstPos(nm) ==
    CHOOSE k \in DOMAIN team_members :
        /\ team_members[k].isdict /\ team_members[k].name = nm
        /\ \A j \in 1..(k-1) : ~(team_members[j].isdict /\ team_members[j].name = nm)

\* the places <<bucket, position>> of the mapping
Places == UNION {{<<k, n>> : n \in DOMAIN workloads[k].charts} : k \in DOMAIN workloads}

EntryAt(p) == workloads[p[1]].charts[p[2]]

Finished == pc \in {"returned", "reported"}

MaxWeight ==
    IF charts = <<>> THEN 0
    ELSE CHOOSE w \in {Weight(charts[k]) : k \in DOMAIN charts} :
            \A k \in DOMAIN charts : Weight(charts[k]) <= w

Conserved ==
    /\ \A c \in DOMAIN charts :
          Cardinality({p \in Places : EntryAt(p).id = charts[c].id}) = 1
    /\ \A p \in Places :
          \E c \in DOMAIN charts :
              EntryAt(p).id = charts[c].id /\ EntryAt(p).pages = Weight(charts[c])

\* C1 as claimed: for all inputs (any charts, any roster) every input chart
\* is in exactly one returned bucket exactly once and no bucket holds a
\* chart that was not in the input.
C1_ConservationAnyRoster == Finished => Conserved

\* C1 as amended: the same, for the rosters that give at least one usable
\* worker name (with none, the empty mapping is returned and the charts are
\* in no bucket).
C1_Conservation == (Finished /\ UsableNames # {}) => Conserved

C1_Witness ==
    /\ pc = "returned"
    /\ Len(workloads) = 2
    /\ Len(charts) = 2
    /\ \A k \in DOMAIN workloads : workloads[k].charts # <<>>

\* C2: with at least 2 workers, after the greedy pass the largest and the
\* smallest total_pages differ by at most the largest item weight.
C2_Balance ==
    (Finished /\ Len(team_members) >= 2) =>
        \A a, b \in DOMAIN workloads :
            workloads[a].total_pages - workloads[b].total_pages <= MaxWeight

C2_Witness ==
    /\ pc = "returned"
    /\ Len(workloads) = 2
    /\ Len(charts) = 3
    /\ MaxWeight = 2
    /\ workloads[1].total_pages - workloads[2].total_pages = MaxWeight

\* C3: every iteration appends the chart to a bucket whose total_pages is
\* minimal at that moment, the first such in roster order, and leaves the
\* other buckets alone.
C3_Iteration ==
    (pc = "loop" /\ i' = i + 1) =>
        \E k \in DOMAIN workloads :
            /\ DOMAIN workloads' = DOMAIN workloads
            /\ Len(workloads'[k].charts) = Len(workloads[k].charts) + 1
            /\ \A j \in DOMAIN workloads : j # k => workloads'[j] = workloads[j]
            /\ \A j \in DOMAIN workloads :
                  /\ workloads[j].total_pages >= workloads[k].total_pages
                  /\ (j # k /\ workloads[j].total_pages = workloads[k].total_pages)
                        => FirstPos(workloads[j].name) > FirstPos(workloads[k].name)

C3_MinFirst == [][C3_Iteration]_vars

\* two charts met a tie of the two workers (the first of the charts has no
\* pages) and both went to the worker the roster names first
C3_Witness ==
    /\ pc = "loop"
    /\ i = 3
    /\ Len(workloads) = 2
    /\ Len(workloads[1].charts) = 2
    /\ workloads[1].charts[1].pages = 0
    /\ workloads[1].total_pages = 0
    /\ workloads[2].charts = <<>>
    /\ workloads[1].name = WorkerNames[2]
    /\ FirstPos(workloads[1].name) < FirstPos(workloads[2].name)

\* a is before b in the order "weight descending, equal weights in input
\* order" (the id of a chart is its input position)
Before(wa, ida, wb, idb) == wa > wb \/ (wa = wb /\ ida < idb)

\* C4: the items are processed by weight descending, equal weights in input
\* order; so every bucket is in that order, and a single worker's bucket is
\* the whole sorted list.
C4_SortedStable ==
    (pc \in {"loop", "returned", "reported"} /\ UsableNames # {}) =>
        /\ Len(charts_sorted) = Len(charts)
        /\ {charts_sorted[n] : n \in DOMAIN charts_sorted} = {charts[n] : n \in DOMAIN charts}
        /\ \A a, b \in DOMAIN charts_sorted :
              a < b => Before(Weight(charts_sorted[a]), charts_sorted[a].id,
                              Weight(charts_sorted[b]), charts_sorted[b].id)
        /\ {EntryAt(p).id : p \in Places} = {charts_sorted[n].id : n \in 1..(i-1)}
        /\ \A p, q \in Places :
              (p[1] = q[1] /\ p[2] < q[2]) =>
                  Before(EntryAt(p).pages, EntryAt(p).id, EntryAt(q).pages, EntryAt(q).id)
        /\ (Finished /\ Len(workloads) = 1) =>
              /\ Len(workloads[1].charts) = Len(charts_sorted)
              /\ \A n \in DOMAIN charts_sorted :
                    workloads[1].charts[n].id = charts_sorted[n].id

C4_Witness ==
    /\ pc = "returned"
    /\ Len(workloads) = 1
    /\ Len(charts) = 3
    /\ Weight(charts[1]) = 1 /\ Weight(charts[2]) = 2 /\ Weight(charts[3]) = 1
    /\ workloads[1].charts[2].id = 1

C6_EmptyRoster ==
    (UsableNames = {} /\ pc # "call") =>
        /\ Finished
        /\ workloads = <<>>
        /\ charts_sorted = <<>>

C6_Witness ==
    /\ pc = "returned"
    /\ team_members # <<>>
    /\ UsableNames = {}
    /\ \E c \in DOMAIN charts : charts[c].ocr = "null"

EmptyBucket(b) == b.charts = <<>> /\ b.total_pages = 0

\* C7: the returned mapping has exactly one bucket per worker name; with no
\* items the call returns and every bucket is empty with total 0, and with
\* fewer items than workers the buckets that got nothing are empty with
\* total 0.
C7_Buckets ==
    /\ (charts = <<>> /\ UsableNames # {}) => pc # "raised"
    /\ (Finished /\ UsableNames # {}) =>
           /\ {workloads[k].name : k \in DOMAIN workloads} = UsableNames
           /\ Len(workloads) = Cardinality(UsableNames)
           /\ charts = <<>> => \A k \in DOMAIN workloads : EmptyBucket(workloads[k])
           /\ \A k \in DOMAIN workloads :
                 workloads[k].charts = <<>> => workloads[k].total_pages = 0
           /\ Cardinality({k \in DOMAIN workloads : EmptyBucket(workloads[k])})
                 >= Len(workloads) - Len(charts)

C7_Witness ==
    /\ pc = "returned"
    /\ Len(workloads) = 2
    /\ Len(charts) = 1
    /\ EmptyBucket(workloads[2])
    /\ ~EmptyBucket(workloads[1])

\* C8: given the empty assignment of an empty roster, the report is still
\* written to the file, without the per-worker average, and nothing fails.
C8_EmptyAssignmentReported ==
    (pc = "reported" /\ workloads = <<>>) =>
        /\ Len(output_file) = 1
        /\ console = <<>>

\* C9: get_page_count is total: no call of it raises, whatever the document
\* (a null 'ocr' included), and the count it gave for a chart is 0 without
\* a non-empty markdown and the number of matches otherwise.
C9_PageCountTotal ==
    /\ pc # "raised"
    /\ \A p \in Places :
          \A c \in DOMAIN charts :
              EntryAt(p).id = charts[c].id => EntryAt(p).pages = Weight(charts[c])

\* the least largest-bucket total over all assignments of the weights ws to
\* the workers whose totals so far are loads (a further item goes to a
\* worker already used or to the first unused one: workers are alike)
RECURSIVE OptFrom(_, _, _)
OptFrom(ws, loads, used) ==
    IF ws = <<>> THEN MaxOf(loads)
    ELSE LET last == IF used < Len(loads) THEN used + 1 ELSE used
             cand == {OptFrom(Tail(ws), [loads EXCEPT ![k] = @ + Head(ws)],
                              IF k > used THEN k ELSE used) : k \in 1..last}
         IN  CHOOSE v \in cand : \A u \in cand : v <= u

OPT == OptFrom([n \in DOMAIN charts |-> Weight(charts[n])],
               [k \in DOMAIN workloads |-> 0], 0)

Makespan == MaxOf([k \in DOMAIN workloads |-> workloads[k].total_pages])

\* C10: the largest bucket total is at most 4/3 of the least possible one.
C10_LPTBound ==
    (Finished /\ Len(workloads) > 0) => 3 * Makespan <= 4 * OPT

\* weights 3,3,2,2,2 on two workers: 7 against the optimal 6
C10_Witness ==
    /\ pc = "returned"
    /\ Len(workloads) = 2
    /\ Makespan = 7
    /\ OPT = 6

====
